---- MODULE Spec2Model ----
(***************************************************************************)
(* Model of app.py: a moving-average-crossover backtest.                   *)
(*                                                                         *)
(* The script runs top to bottom: the sidebar sliders give the two window  *)
(* lengths, get_data gives the price series, moving_average_crossover      *)
(* builds the signals frame, plot_signals picks the buy and sell markers,  *)
(* portfolio_performance builds the portfolio frame, and the metrics block *)
(* computes the total return and the final value.                          *)
(*                                                                         *)
(* Floating-point values are modelled exactly: a value is a normalised     *)
(* rational, NaN, +inf or -inf.  Rounding is not modelled.  Sequences are  *)
(* TLA+ sequences (1-based); At(s, i) reads the 0-based index i the code   *)
(* and its documentation use.                                              *)
(***************************************************************************)
EXTENDS Integers, Sequences, FiniteSets, TLC

\* ---------------------------------------------------------------- bounds
MaxLen == 4
MaxPrice == 3
MaxWin == 3

\* ------------------------------------------------------ program constants
DefaultCapital == 100000
LotSize == 100

\* --------------------------------------------------- floating-point values
Abs(x) == IF x < 0 THEN -x ELSE x

Max(a, b) == IF a >= b THEN a ELSE b

RECURSIVE GCD(_, _)
GCD(a, b) == IF b = 0 THEN a ELSE GCD(b, a % b)

NaN == [k |-> "nan", n |-> 0, d |-> 1]

PosInf == [k |-> "inf", n |-> 1, d |-> 1]

NegInf == [k |-> "inf", n |-> -1, d |-> 1]

\* the float n/d (d # 0), in lowest terms with a positive denominator
Rat(n, d) ==
    LET g == GCD(Abs(n), Abs(d))
        s == IF d < 0 THEN -1 ELSE 1
    IN  [k |-> "num", n |-> (s * n) \div g, d |-> Abs(d) \div g]

Num(n) == [k |-> "num", n |-> n, d |-> 1]

IsNaN(a) == a.k = "nan"

IsNum(a) == a.k = "num"

FNeg(a) == IF IsNaN(a) THEN NaN ELSE [a EXCEPT !.n = -a.n]

FAdd(a, b) ==
    IF IsNaN(a) \/ IsNaN(b) THEN NaN
    ELSE IF IsNum(a) /\ IsNum(b) THEN Rat(a.n * b.d + b.n * a.d, a.d * b.d)
    ELSE IF IsNum(a) THEN b
    ELSE IF IsNum(b) THEN a
    ELSE IF a.n = b.n THEN a
    ELSE NaN

FSub(a, b) == FAdd(a, FNeg(b))

Sign(x) == IF x > 0 THEN 1 ELSE IF x < 0 THEN -1 ELSE 0

FMul(a, b) ==
    IF IsNaN(a) \/ IsNaN(b) THEN NaN
    ELSE IF IsNum(a) /\ IsNum(b) THEN Rat(a.n * b.n, a.d * b.d)
    ELSE IF Sign(a.n) * Sign(b.n) = 0 THEN NaN
    ELSE IF Sign(a.n) * Sign(b.n) > 0 THEN PosInf
    ELSE NegInf

\* numpy float division: x/0 is +-inf, 0/0 is NaN, nothing is raised
FDiv(a, b) ==
    IF IsNaN(a) \/ IsNaN(b) THEN NaN
    ELSE IF IsNum(a) /\ IsNum(b) THEN
        IF b.n # 0 THEN Rat(a.n * b.d, a.d * b.n)
        ELSE IF a.n > 0 THEN PosInf
        ELSE IF a.n < 0 THEN NegInf
        ELSE NaN
    ELSE IF IsNum(b) THEN (IF b.n >= 0 THEN a ELSE FNeg(a))
    ELSE IF IsNum(a) THEN Num(0)
    ELSE NaN

\* a > b on floats: False when either side is NaN
FGt(a, b) ==
    IF IsNaN(a) \/ IsNaN(b) THEN FALSE
    ELSE IF IsNum(a) /\ IsNum(b) THEN a.n * b.d > b.n * a.d
    ELSE IF IsNum(b) THEN a.n > 0
    ELSE IF IsNum(a) THEN b.n < 0
    ELSE a.n > b.n

\* a == b on floats: False when either side is NaN
FEq(a, b) == ~IsNaN(a) /\ ~IsNaN(b) /\ a = b

\* ------------------------------------------------------- series helpers
At(s, i) == s[i + 1]

Idx(s) == 0 .. (Len(s) - 1)

\* s[k:] for k >= 0
PySliceFrom(s, k) == IF k >= Len(s) THEN << >> ELSE SubSeq(s, k + 1, Len(s))

\* Series * Series, Series + Series, scalar - Series, scalar * Series
SeriesMul(a, b) == [i \in 1 .. Len(a) |-> FMul(a[i], b[i])]

SeriesAdd(a, b) == [i \in 1 .. Len(a) |-> FAdd(a[i], b[i])]

ScalarSub(c, a) == [i \in 1 .. Len(a) |-> FSub(c, a[i])]

ScalarMul(c, a) == [i \in 1 .. Len(a) |-> FMul(c, a[i])]

\* variant of Diff: the first entry is differenced against 0 instead of NaN
DiffFromZero(a) ==
    [i \in 1 .. Len(a) |-> IF i = 1 THEN FSub(a[i], Num(0)) ELSE FSub(a[i], a[i - 1])]

\* Series.diff(): NaN at index 0
Diff(a) == [i \in 1 .. Len(a) |-> IF i = 1 THEN NaN ELSE FSub(a[i], a[i - 1])]

\* Series.cumsum() with skipna: a NaN entry stays NaN and adds nothing
RECURSIVE RunningSum(_, _)
RunningSum(a, i) ==
    IF i = 0 THEN Num(0)
    ELSE IF IsNaN(a[i]) THEN RunningSum(a, i - 1)
    ELSE FAdd(RunningSum(a, i - 1), a[i])

CumSum(a) == [i \in 1 .. Len(a) |-> IF IsNaN(a[i]) THEN NaN ELSE RunningSum(a, i)]

\* forward fill: a NaN takes the last value before it that is not NaN
RECURSIVE FFillAt(_, _)
FFillAt(a, i) ==
    IF ~IsNaN(a[i]) \/ i = 1 THEN a[i] ELSE FFillAt(a, i - 1)

FFill(a) == [i \in 1 .. Len(a) |-> FFillAt(a, i)]

\* Series.pct_change(): forward fill, then x[i] / x[i-1] - 1, NaN at index 0
PctChange(a) ==
    LET f == FFill(a)
    IN  [i \in 1 .. Len(a) |->
            IF i = 1 THEN NaN ELSE FSub(FDiv(f[i], f[i - 1]), Num(1))]

\* ---------------------------------------------------- rolling(...).mean()
\* variant of WinStart: the window reaches one sample too far back
WinStartWide(i, window) == Max(0, i - window)

\* bounds of the fixed window at index i: values[WinStart .. WinEnd - 1]
WinStart(i, window) == Max(0, i + 1 - window)

WinEnd(i) == i + 1

RECURSIVE AddRange(_, _, _, _)
AddRange(st, values, lo, hi) ==
    IF lo >= hi THEN st
    ELSE AddRange([sum_x |-> FAdd(st.sum_x, At(values, lo)), nobs |-> st.nobs + 1],
                  values, lo + 1, hi)

RECURSIVE RemoveRange(_, _, _, _)
RemoveRange(st, values, lo, hi) ==
    IF lo >= hi THEN st
    ELSE RemoveRange([sum_x |-> FSub(st.sum_x, At(values, lo)), nobs |-> st.nobs - 1],
                     values, lo + 1, hi)

\* the running (sum, count) after index i: set up at index 0, then slide
RECURSIVE RollState(_, _, _)
RollState(values, window, i) ==
    IF i = 0
    THEN AddRange([sum_x |-> Num(0), nobs |-> 0], values,
                  WinStart(0, window), WinEnd(0))
    ELSE AddRange(RemoveRange(RollState(values, window, i - 1), values,
                              WinStart(i - 1, window), WinStart(i, window)),
                  values, WinEnd(i - 1), WinEnd(i))

CalcMean(st, minp) ==
    IF st.nobs >= minp /\ st.nobs > 0 THEN FDiv(st.sum_x, Num(st.nobs)) ELSE NaN

RollingMean(values, window, minp) ==
    [i \in 1 .. Len(values) |-> CalcMean(RollState(values, window, i - 1), minp)]

\* rolling(window, min_periods) rejects these arguments with a ValueError
RollingRejects(window, minp) == window < 0 \/ minp > window

\* ------------------------------------------------------------------ state
VARIABLES
    pc,               \* the statement of the script that runs next
    short_window,     \* sidebar slider
    long_window,      \* sidebar slider
    initial_capital,  \* parameter of portfolio_performance
    data,             \* data['Adj Close']
    signals,          \* frame returned by moving_average_crossover
    buys,             \* indices plot_signals marks as buy
    sells,            \* indices plot_signals marks as sell
    portfolio,        \* frame returned by portfolio_performance
    total_return,     \* metric shown by the script
    final_value,      \* metric shown by the script
    error             \* exception that ended the script, or "none"

vars == << pc, short_window, long_window, initial_capital, data, signals,
           buys, sells, portfolio, total_return, final_value, error >>

Windows == 0 .. MaxWin

Capitals == {0, DefaultCapital}

Prices == {Num(p) : p \in 1 .. MaxPrice}

PriceSeries == UNION {[1 .. n -> Prices] : n \in 0 .. MaxLen}

NoSignals ==
    [Price |-> << >>, Short_MA |-> << >>, Long_MA |-> << >>,
     Signal |-> << >>, Position |-> << >>]

NoPortfolio ==
    [Stock |-> << >>, holdings |-> << >>, cash |-> << >>,
     total |-> << >>, returns |-> << >>]

Init ==
    /\ pc = "get_data"
    /\ short_window \in Windows
    /\ long_window \in Windows
    /\ initial_capital \in Capitals
    /\ data = << >>
    /\ signals = NoSignals
    /\ buys = {}
    /\ sells = {}
    /\ portfolio = NoPortfolio
    /\ total_return = NaN
    /\ final_value = NaN
    /\ error = "none"

\* ------------------------------------------------------------- get_data
GetData ==
    /\ pc = "get_data"
    /\ \E prices \in PriceSeries : data' = prices
    /\ pc' = "moving_average_crossover"
    /\ UNCHANGED << short_window, long_window, initial_capital, signals,
                    buys, sells, portfolio, total_return, final_value, error >>

\* ------------------------------------------------ moving_average_crossover
\* variant of NpWhereGt: the comparison is reversed
NpWhereLt(short, long) ==
    [i \in 1 .. Len(short) |-> IF FGt(long[i], short[i]) THEN Num(1) ELSE Num(0)]

\* np.where(short > long, 1.0, 0.0), element by element
NpWhereGt(short, long) ==
    [i \in 1 .. Len(short) |-> IF FGt(short[i], long[i]) THEN Num(1) ELSE Num(0)]

\* column[k:] = values
SliceAssign(column, k, values) ==
    [i \in 1 .. Len(column) |-> IF i - 1 >= k THEN values[i - k] ELSE column[i]]

\* variant of SignalColumn: equal averages count as long
SignalColumnGe(short_ma, long_ma, window) ==
    [i \in 1 .. Len(short_ma) |->
        IF i - 1 >= window /\ ~FGt(long_ma[i], short_ma[i]) THEN Num(1) ELSE Num(0)]

\* variant of SignalColumn: the slice starts one index early
SignalColumnEarly(short_ma, long_ma, window) ==
    [i \in 1 .. Len(short_ma) |->
        IF i - 1 >= window - 1 /\ FGt(short_ma[i], long_ma[i]) THEN Num(1) ELSE Num(0)]

\* signals['Signal'] = 0.0, then the slice from short_window on is assigned
\* (the chained assignment writes through to the frame, as it does in the
\* pandas versions that also accept the positional [-1] of the metrics block)
SignalColumn(short_ma, long_ma, window) ==
    SliceAssign([i \in 1 .. Len(short_ma) |-> Num(0)], window,
                NpWhereGt(PySliceFrom(short_ma, window),
                          PySliceFrom(long_ma, window)))

moving_average_crossover(prices, short, long) ==
    LET short_ma == RollingMean(prices, short, 1)
        long_ma  == RollingMean(prices, long, 1)
        signal   == SignalColumn(short_ma, long_ma, short)
    IN  [Price |-> prices, Short_MA |-> short_ma, Long_MA |-> long_ma,
         Signal |-> signal, Position |-> Diff(signal)]

MovingAverageCrossover ==
    /\ pc = "moving_average_crossover"
    /\ IF RollingRejects(short_window, 1) \/ RollingRejects(long_window, 1)
       THEN /\ error' = "ValueError"
            /\ pc' = "aborted"
            /\ UNCHANGED signals
       ELSE /\ signals' = moving_average_crossover(data, short_window, long_window)
            /\ pc' = "plot_signals"
            /\ UNCHANGED error
    /\ UNCHANGED << short_window, long_window, initial_capital, data,
                    buys, sells, portfolio, total_return, final_value >>

\* ------------------------------------------------------------ plot_signals
\* the rows selected by signals['Position'] == marker
Marked(position, marker) == {i \in Idx(position) : FEq(At(position, i), marker)}

PlotSignals ==
    /\ pc = "plot_signals"
    /\ buys' = Marked(signals.Position, Num(1))
    /\ sells' = Marked(signals.Position, Num(-1))
    /\ pc' = "portfolio_performance"
    /\ UNCHANGED << short_window, long_window, initial_capital, data, signals,
                    portfolio, total_return, final_value, error >>

\* --------------------------------------------------- portfolio_performance
\* variant of CashColumn: a trade moves cash by the units, not by units * price
CashColumnUnits(capital, stock, price) ==
    ScalarSub(capital, CumSum(Diff(stock)))

\* initial_capital - (pos_diff['Stock'] * signals['Price']).cumsum()
CashColumn(capital, stock, price) ==
    ScalarSub(capital, CumSum(SeriesMul(Diff(stock), price)))

portfolio_performance(sig, capital) ==
    LET stock    == ScalarMul(Num(LotSize), sig.Signal)
        holdings == SeriesMul(stock, sig.Price)
        cash     == CashColumn(capital, stock, sig.Price)
        total    == SeriesAdd(cash, holdings)
    IN  [Stock |-> SeriesMul(stock, sig.Price), holdings |-> holdings,
         cash |-> cash, total |-> total, returns |-> PctChange(total)]

PortfolioPerformance ==
    /\ pc = "portfolio_performance"
    /\ portfolio' = portfolio_performance(signals, Num(initial_capital))
    /\ pc' = "metrics"
    /\ UNCHANGED << short_window, long_window, initial_capital, data, signals,
                    buys, sells, total_return, final_value, error >>

\* ----------------------------------------------------- performance metrics
\* portfolio['total'][-1] / portfolio['total'][0] - 1
TotalReturn(total) ==
    FSub(FDiv(At(total, Len(total) - 1), At(total, 0)), Num(1))

Metrics ==
    /\ pc = "metrics"
    /\ IF Len(portfolio.total) = 0
       THEN /\ error' = "IndexError"
            /\ pc' = "aborted"
            /\ UNCHANGED << total_return, final_value >>
       ELSE /\ total_return' = TotalReturn(portfolio.total)
            /\ final_value' = At(portfolio.total, Len(portfolio.total) - 1)
            /\ pc' = "done"
            /\ UNCHANGED error
    /\ UNCHANGED << short_window, long_window, initial_capital, data, signals,
                    buys, sells, portfolio >>

Next ==
    \/ GetData
    \/ MovingAverageCrossover
    \/ PlotSignals
    \/ PortfolioPerformance
    \/ Metrics

Spec == Init /\ [][Next]_vars

\* ==================================================================
\* Properties
\* ==================================================================
SignalsBuilt == pc \in {"plot_signals", "portfolio_performance", "metrics", "done"}

MarkersPlotted == pc \in {"portfolio_performance", "metrics", "done"}

PortfolioBuilt == pc \in {"metrics", "done"}

N == Len(data)

\* sum of s[lo .. hi], 0-based and inclusive, added up directly
RECURSIVE SumRange(_, _, _)
SumRange(s, lo, hi) ==
    IF lo > hi THEN Num(0) ELSE FAdd(At(s, lo), SumRange(s, lo + 1, hi))

\* arithmetic mean of price[max(0, i-w+1) .. i]
TrailingMean(s, i, w) ==
    FDiv(SumRange(s, Max(0, i - w + 1), i), Num(i - Max(0, i - w + 1) + 1))

StrictlyIncreasing(s) ==
    \A i \in 1 .. Len(s) - 1 : FGt(s[i + 1], s[i])

ConstantSeries(s) == \A i, j \in 1 .. Len(s) : s[i] = s[j]

\* units held at index i: 100 shares per long signal
Units(i) == FMul(Num(LotSize), At(signals.Signal, i))

\* sum over k = 1..i of units[k-1] * (price[k] - price[k-1])
RECURSIVE HeldGain(_)
HeldGain(i) ==
    IF i < 1 THEN Num(0)
    ELSE FAdd(HeldGain(i - 1),
              FMul(Units(i - 1), FSub(At(data, i), At(data, i - 1))))

\* C1: every Signal entry is 0.0 or 1.0; it is 0.0 at every index below
\* short_window whatever the moving averages are, and from short_window on
\* it is 1.0 exactly when Short_MA > Long_MA, so equal averages give 0.0.
C1_SignalRule ==
    SignalsBuilt =>
        /\ Len(signals.Signal) = N
        /\ \A i \in Idx(signals.Signal) :
            /\ At(signals.Signal, i) \in {Num(0), Num(1)}
            /\ i < short_window => At(signals.Signal, i) = Num(0)
            /\ i >= short_window =>
                 (At(signals.Signal, i) = Num(1)
                    <=> FGt(At(signals.Short_MA, i), At(signals.Long_MA, i)))
            /\ (i >= short_window
                  /\ At(signals.Short_MA, i) = At(signals.Long_MA, i))
                 => At(signals.Signal, i) = Num(0)

C1_Witness ==
    /\ SignalsBuilt
    /\ \E i \in Idx(signals.Signal) :
         i < short_window /\ FGt(At(signals.Short_MA, i), At(signals.Long_MA, i))
    /\ \E i \in Idx(signals.Signal) :
         i >= short_window /\ At(signals.Signal, i) = Num(1)
    /\ \E i \in Idx(signals.Signal) :
         i >= short_window /\ At(signals.Short_MA, i) = At(signals.Long_MA, i)

\* C2: for each of the two windows w, the rolling mean at index i is the
\* arithmetic mean of price[max(0, i-w+1) .. i] (all prices so far while
\* i < w-1, the trailing w prices from then on) and is never undefined.
C2_RollingMean ==
    SignalsBuilt =>
        \A i \in Idx(data) :
            /\ ~IsNaN(At(signals.Short_MA, i))
            /\ ~IsNaN(At(signals.Long_MA, i))
            /\ At(signals.Short_MA, i) = TrailingMean(data, i, short_window)
            /\ At(signals.Long_MA, i) = TrailingMean(data, i, long_window)
            /\ i < short_window - 1 =>
                 At(signals.Short_MA, i) = FDiv(SumRange(data, 0, i), Num(i + 1))
            /\ i >= long_window - 1 =>
                 At(signals.Long_MA, i) =
                     FDiv(SumRange(data, i - long_window + 1, i), Num(long_window))

C2_Witness ==
    /\ SignalsBuilt
    /\ 1 < short_window
    /\ short_window < long_window
    /\ long_window < N
    /\ ~ConstantSeries(data)
    /\ At(signals.Long_MA, N - 1) # At(signals.Long_MA, N - 2)

\* C3: when signal[0] is 0.0, total_equity[0] is exactly initial_capital:
\* cash[0] = initial_capital and holdings_value[0] = 0.
C3_OpeningEquity ==
    (PortfolioBuilt /\ N >= 1 /\ At(signals.Signal, 0) = Num(0)) =>
        /\ At(portfolio.total, 0) = Num(initial_capital)
        /\ At(portfolio.cash, 0) = Num(initial_capital)
        /\ At(portfolio.holdings, 0) = Num(0)

\* C4: with zero or one price point, or with a non-positive window, the
\* script stops with an error and neither function returns a series.
C4_RefusesBadInput ==
    (pc \notin {"get_data", "moving_average_crossover"}
       /\ (N <= 1 \/ short_window <= 0 \/ long_window <= 0)) =>
        /\ error # "none"
        /\ signals = NoSignals
        /\ portfolio = NoPortfolio

\* C5: the total-return summary ends in an error when the portfolio has
\* fewer than 2 points; with 2 or more points it succeeds with the defined
\* value total[last] / total[first] - 1 and final_value = total[last].
C5_TotalReturn ==
    (pc = "done" \/ error = "IndexError") =>
        IF Len(portfolio.total) < 2
        THEN error # "none"
        ELSE /\ error = "none"
             /\ ~IsNaN(total_return)
             /\ total_return =
                  FSub(FDiv(At(portfolio.total, Len(portfolio.total) - 1),
                            At(portfolio.total, 0)), Num(1))
             /\ final_value = At(portfolio.total, Len(portfolio.total) - 1)

\* C6: Position[i] = Signal[i] - Signal[i-1] for i >= 1; Position[0] is
\* undefined and is neither a buy nor a sell marker; the sum of Position
\* over 1..n-1 is Signal[n-1] - Signal[0].
C6_PositionDiff ==
    (MarkersPlotted /\ N >= 1) =>
        /\ Len(signals.Position) = N
        /\ \A i \in 1 .. N - 1 :
             At(signals.Position, i) =
                 FSub(At(signals.Signal, i), At(signals.Signal, i - 1))
        /\ IsNaN(At(signals.Position, 0))
        /\ 0 \notin buys \cup sells
        /\ ~FEq(At(signals.Position, 0), Num(1))
        /\ ~FEq(At(signals.Position, 0), Num(-1))
        /\ SumRange(signals.Position, 1, N - 1) =
             FSub(At(signals.Signal, N - 1), At(signals.Signal, 0))

C6_Witness ==
    /\ MarkersPlotted
    /\ N >= 4
    /\ buys # {}
    /\ sells # {}
    /\ At(signals.Signal, N - 1) = Num(0)

\* C7 as stated: strictly increasing prices (two points or more) and
\* short_window < long_window give exactly one buy marker and no sell marker.
C7_OneBuyAnyLength ==
    (MarkersPlotted /\ N >= 2 /\ StrictlyIncreasing(data)
       /\ 1 <= short_window /\ short_window < long_window) =>
        /\ Cardinality(buys) = 1
        /\ sells = {}

\* C7 amended: strictly increasing prices with more than short_window points
\* and 1 <= short_window < long_window give exactly one buy marker, at index
\* short_window, and no sell marker; with short_window points or fewer there
\* is no marker at all.
C7_OneBuyWhenLongEnough ==
    (MarkersPlotted /\ StrictlyIncreasing(data)
       /\ 1 <= short_window /\ short_window < long_window) =>
        /\ sells = {}
        /\ N > short_window => buys = {short_window}
        /\ N <= short_window => buys = {}

C7_Witness ==
    /\ MarkersPlotted
    /\ StrictlyIncreasing(data)
    /\ 2 <= short_window
    /\ short_window < long_window
    /\ N > short_window
    /\ buys = {short_window}

\* C8: on a constant price series Short_MA = Long_MA and Signal = 0.0 at
\* every index, there is no marker, and total equity is initial_capital at
\* every index, the first included.
C8_ConstantSeries ==
    (PortfolioBuilt /\ ConstantSeries(data)) =>
        /\ buys = {}
        /\ sells = {}
        /\ \A i \in Idx(data) :
            /\ At(signals.Short_MA, i) = At(signals.Long_MA, i)
            /\ At(signals.Signal, i) = Num(0)
            /\ At(portfolio.total, i) = Num(initial_capital)

\* C9: for every index i >= 1, total_equity[i] = initial_capital + the sum
\* over k = 1..i of units[k-1] * (price[k] - price[k-1]); from one day to
\* the next equity moves only by the price move on the units held the day
\* before, so a trade day and a day entered flat add nothing of their own.
C9_EquityConservation ==
    PortfolioBuilt =>
        /\ \A i \in 1 .. N - 1 :
             At(portfolio.total, i) = FAdd(Num(initial_capital), HeldGain(i))
        /\ \A i \in 2 .. N - 1 :
             FSub(At(portfolio.total, i), At(portfolio.total, i - 1)) =
                 FMul(Units(i - 1), FSub(At(data, i), At(data, i - 1)))
        /\ \A i \in 2 .. N - 1 :
             Units(i - 1) = Num(0) =>
                 At(portfolio.total, i) = At(portfolio.total, i - 1)

C9_Witness ==
    /\ PortfolioBuilt
    /\ buys # {}
    /\ sells # {}
    /\ \E i \in 2 .. N - 1 :
         /\ i \in sells
         /\ At(data, i) # At(data, i - 1)
         /\ At(portfolio.total, i) # Num(initial_capital)

\* C10: the position starts flat (Signal[0] = 0.0); buy and sell markers
\* alternate starting with a buy, the first marker being a buy at an index
\* >= short_window; at every index i the buys minus the sells in 1..i equal
\* Signal[i], so the units held are always 0 or 100.
C10_Alternation ==
    (PortfolioBuilt /\ N >= 1) =>
        /\ At(signals.Signal, 0) = Num(0)
        /\ \A e \in buys \cup sells :
             /\ e >= short_window
             /\ \E b \in buys : b <= e
        /\ \A b1, b2 \in buys :
             b1 < b2 => \E s \in sells : b1 < s /\ s < b2
        /\ \A s1, s2 \in sells :
             s1 < s2 => \E b \in buys : s1 < b /\ b < s2
        /\ \A i \in Idx(data) :
            /\ Num(Cardinality({b \in buys : b <= i})
                   - Cardinality({s \in sells : s <= i}))
                 = At(signals.Signal, i)
            /\ Units(i) \in {Num(0), Num(LotSize)}
            /\ At(portfolio.holdings, i) \in {Num(0), FMul(Num(LotSize), At(data, i))}

C10_Witness ==
    /\ PortfolioBuilt
    /\ Cardinality(buys) >= 2
    /\ sells # {}

====
